---- MODULE Spec2Model ----
(***************************************************************************)
(* Escrow bot (src/bot.py): the escrow transaction state machine, the      *)
(* deposit verification against chain data, and the settlement transfers.  *)
(*                                                                         *)
(* bot.py defines most handlers twice; Python keeps the later definition,  *)
(* so the handlers modelled here are those of lines 960-1733, together     *)
(* with the helpers of lines 115-253 that are defined once.                *)
(*                                                                         *)
(* Every handler runs on one asyncio event loop.  A handler is atomic up   *)
(* to its first await; confirm_payment awaits a reply between its commit   *)
(* and its transfer, so it is modelled as two steps.  The chat transport   *)
(* (reply_text, send_message) is taken to deliver; replies are recorded in *)
(* the variable last.                                                      *)
(***************************************************************************)
EXTENDS Integers, Sequences, FiniteSets, TLC

\* ------------------------------------------------------------------------
\* Arbitrary-precision naturals (little-endian limbs), used to compute the
\* binary64 arithmetic of the Python floats exactly.
LimbBase == 32768

RECURSIVE BNorm(_)
BNorm(a) == IF a = <<>> THEN <<>>
            ELSE IF a[Len(a)] = 0 THEN BNorm(SubSeq(a, 1, Len(a) - 1)) ELSE a

RECURSIVE BFromInt(_)
BFromInt(n) == IF n = 0 THEN <<>> ELSE <<n % LimbBase>> \o BFromInt(n \div LimbBase)

RECURSIVE BToInt(_)
BToInt(a) == IF a = <<>> THEN 0 ELSE a[1] + LimbBase * BToInt(Tail(a))

RECURSIVE BAddC(_, _, _)
BAddC(a, b, c) ==
    IF a = <<>> /\ b = <<>> THEN (IF c = 0 THEN <<>> ELSE <<c>>)
    ELSE LET x == IF a = <<>> THEN 0 ELSE a[1]
             y == IF b = <<>> THEN 0 ELSE b[1]
             s == x + y + c
         IN  <<s % LimbBase>> \o BAddC(IF a = <<>> THEN <<>> ELSE Tail(a),
                                       IF b = <<>> THEN <<>> ELSE Tail(b),
                                       s \div LimbBase)

BAdd(a, b) == BAddC(a, b, 0)

\* a - b for a >= b
RECURSIVE BSubC(_, _, _)
BSubC(a, b, c) ==
    IF a = <<>> THEN <<>>
    ELSE LET y == IF b = <<>> THEN 0 ELSE b[1]
             d == a[1] - y - c
         IN  <<IF d < 0 THEN d + LimbBase ELSE d>>
             \o BSubC(Tail(a), IF b = <<>> THEN <<>> ELSE Tail(b), IF d < 0 THEN 1 ELSE 0)

BSub(a, b) == BNorm(BSubC(a, b, 0))

RECURSIVE BMulSmallC(_, _, _)
BMulSmallC(a, d, c) ==
    IF a = <<>> THEN (IF c = 0 THEN <<>> ELSE <<c>>)
    ELSE LET p == a[1] * d + c
         IN  <<p % LimbBase>> \o BMulSmallC(Tail(a), d, p \div LimbBase)

BMulSmall(a, d) == BNorm(BMulSmallC(a, d, 0))

\* a * LimbBase
BShiftLimb(a) == IF a = <<>> THEN <<>> ELSE <<0>> \o a

RECURSIVE BMul(_, _)
BMul(a, b) == IF b = <<>> \/ a = <<>> THEN <<>>
              ELSE BAdd(BMulSmall(a, b[1]), BShiftLimb(BMul(a, Tail(b))))

\* quotient and remainder of a by a single limb d, most significant limb first
BDivDigit(rec, digit) == [q |-> rec.q \o <<digit>>, r |-> rec.r]

RECURSIVE BDivSmallR(_, _, _)
BDivSmallR(a, d, r) ==
    IF a = <<>> THEN [q |-> <<>>, r |-> r]
    ELSE LET n   == Len(a)
             cur == r * LimbBase + a[n]
         IN  BDivDigit(BDivSmallR(SubSeq(a, 1, n - 1), d, cur % d), cur \div d)

BDivNorm(x) == [q |-> BNorm(x.q), r |-> x.r]

BDivSmall(a, d) == BDivNorm(BDivSmallR(a, d, 0))

RECURSIVE BShl(_, _)
BShl(a, k) == IF k = 0 THEN a
              ELSE BShl(IF k >= 15 THEN BShiftLimb(a) ELSE BAdd(a, a),
                        IF k >= 15 THEN k - 15 ELSE k - 1)

RECURSIVE BShr(_, _)
BShr(a, k) == IF k = 0 \/ a = <<>> THEN a
              ELSE BShr(IF k >= 15 THEN Tail(a) ELSE BDivSmall(a, 2).q,
                        IF k >= 15 THEN k - 15 ELSE k - 1)

RECURSIVE BLess(_, _)
BLess(a, b) == IF Len(a) # Len(b) THEN Len(a) < Len(b)
               ELSE IF a = <<>> THEN FALSE
               ELSE LET n == Len(a)
                    IN IF a[n] # b[n] THEN a[n] < b[n]
                       ELSE BLess(SubSeq(a, 1, n - 1), SubSeq(b, 1, n - 1))

\* ------------------------------------------------------------------------
\* Python float = IEEE-754 binary64.  A non-negative finite value is the
\* record [m, e] standing for m * 2^e with m < 2^53 (+ one carry).
Fits53(a) == Len(a) < 4 \/ (Len(a) = 4 /\ a[4] < 256)

\* round to nearest, ties to even, of (a + fraction) * 2^e: g is the first
\* discarded bit, s tells whether a lower discarded bit is set
RECURSIVE RoundShift(_, _, _, _)
RoundShift(a, e, g, s) ==
    IF Fits53(a)
    THEN LET odd == a # <<>> /\ a[1] % 2 = 1
             up  == g = 1 /\ (s \/ odd)
         IN  [m |-> IF up THEN BAdd(a, <<1>>) ELSE a, e |-> e]
    ELSE RoundShift(BDivSmall(a, 2).q, e + 1, a[1] % 2, s \/ g = 1)

FRound(a, e) == RoundShift(a, e, 0, FALSE)

\* float(n) of an integer below 2^31
FFromInt(n) == [m |-> BFromInt(n), e |-> 0]

\* x * y
FMul(x, y) == FRound(BMul(x.m, y.m), x.e + y.e)

\* x / (d * 2^k), d a single limb
FRoundDiv(qr, e) == RoundShift(qr.q, e, 0, qr.r # 0)

FDivSmall(x, d, k) == FRoundDiv(BDivSmall(BShl(x.m, 75), d), x.e - 75 - k)

\* x - y for x >= y
FSub(x, y) ==
    LET e == IF x.e < y.e THEN x.e ELSE y.e
    IN  FRound(BSub(BShl(x.m, x.e - e), BShl(y.m, y.e - e)), e)

FLess(x, y) ==
    LET e == IF x.e < y.e THEN x.e ELSE y.e
    IN  BLess(BShl(x.m, x.e - e), BShl(y.m, y.e - e))

FEq(x, y) == ~FLess(x, y) /\ ~FLess(y, x)

\* int(x): truncation
FToInt(x) == BToInt(IF x.e >= 0 THEN BShl(x.m, x.e) ELSE BShr(x.m, 0 - x.e))

\* the literal 1e6 and division by it (10^6 = 15625 * 2^6)
F1e6 == FFromInt(1000000)

FDiv1e6(x) == FDivSmall(x, 15625, 6)

\* x / 2, exact
FHalf(x) == [m |-> x.m, e |-> x.e - 1]

\* NORMAL_COMMISSION_RATE = 0.05, the double nearest to 1/20
NORMAL_COMMISSION_RATE == FDivSmall(FFromInt(1), 5, 2)

\* ------------------------------------------------------------------------
\* Strings are sequences of code points; chain memo data is a sequence of
\* hexadecimal characters.
HexChars == <<"0", "1", "2", "3", "4", "5", "6", "7",
              "8", "9", "a", "b", "c", "d", "e", "f">>

IsHexChar(c) == \E i \in 1..16 : HexChars[i] = c

HexVal(c) == (CHOOSE i \in 1..16 : HexChars[i] = c) - 1

Fail == [ok |-> FALSE, val |-> <<>>]

\* bytes.fromhex: raises on an odd number of digits or a non-hex character
FromHex(h) ==
    IF Len(h) % 2 = 1 \/ \E i \in 1..Len(h) : ~IsHexChar(h[i])
    THEN Fail
    ELSE [ok |-> TRUE,
          val |-> [i \in 1..(Len(h) \div 2) |->
                     16 * HexVal(h[2 * i - 1]) + HexVal(h[2 * i])]]

\* the code point c before the decoded rest r
Utf8Cons(c, r) == IF r.ok THEN [ok |-> TRUE, val |-> <<c>> \o r.val] ELSE Fail

\* bytes.decode("utf-8") for the one- and two-byte forms; any other lead or
\* a missing continuation byte raises
RECURSIVE Utf8Decode(_)
Utf8Decode(b) ==
    IF b = <<>> THEN [ok |-> TRUE, val |-> <<>>]
    ELSE IF b[1] < 128 \/ (b[1] >= 194 /\ b[1] <= 223 /\ Len(b) >= 2
                           /\ b[2] >= 128 /\ b[2] <= 191)
         THEN Utf8Cons(IF b[1] < 128 THEN b[1] ELSE (b[1] - 192) * 64 + (b[2] - 128),
                       Utf8Decode(SubSeq(b, IF b[1] < 128 THEN 2 ELSE 3, Len(b))))
    ELSE Fail

\* str.encode("utf-8") for code points below 2048
RECURSIVE Utf8Encode(_)
Utf8Encode(s) ==
    IF s = <<>> THEN <<>>
    ELSE (IF s[1] < 128 THEN <<s[1]>>
          ELSE <<192 + (s[1] \div 64), 128 + (s[1] % 64)>>) \o Utf8Encode(Tail(s))

\* bytes.hex()
RECURSIVE ToHex(_)
ToHex(b) ==
    IF b = <<>> THEN <<>>
    ELSE <<HexChars[(b[1] \div 16) + 1], HexChars[(b[1] % 16) + 1]>> \o ToHex(Tail(b))

\* str.lower() on ASCII letters
Lower(s) == [i \in 1..Len(s) |-> IF s[i] >= 65 /\ s[i] <= 90 THEN s[i] + 32 ELSE s[i]]

\* sub in s
Contains(sub, s) ==
    \E i \in 0..(Len(s) - Len(sub)) : SubSeq(s, i + 1, i + Len(sub)) = sub

\* ------------------------------------------------------------------------
\* Bounds of the model
MaxItems == 1

MaxTx == 1

MaxChain == 1

MaxRefunds == 1

\* offers in the specification of the marketplace
MaxOffers == 2

MaxRatings == 1

\* users inside the rating conversation at a time
MaxRaters == 1

\* ------------------------------------------------------------------------
\* Inputs
ADMIN_TELEGRAM_ID == 999999999

Users == {1, 2, ADMIN_TELEGRAM_ID}

\* user 1 lists items, user 2 makes offers, and every user issues every
\* other command
Sellers == {1}

Buyers == {2}

\* wallet addresses typed by users
Wallets == {"TSellerWallet"}

\* the addresses typed in /accept where a second /accept matters
PayoutWallets == Wallets \cup {"TOtherWallet"}

\* item prices, in hundredths of a USDT: 2.30 and 100.00
Prices == {230, 10000}

\* two of the 12-digit strings generate_transaction_id can return:
\* "121212121212" and "212121212121"
TxIdA == <<49, 50, 49, 50, 49, 50, 49, 50, 49, 50, 49, 50>>

TxIdB == <<50, 49, 50, 49, 50, 49, 50, 49, 50, 49, 50, 49>>

TxIds == {TxIdA, TxIdB}

\* amounts of chain transfers, in minor units (10^-6 USDT): 2.30 and 100.00
DepositValues == {2300000, 100000000}

\* a chain transfer that over-pays 2.30 by one minor unit
OverpaidValues == {2300001}

\* memo data of chain transfers, as hex: the memo "121212121212" and the
\* memo "1212121212121", which contains both ids
DataPool == {ToHex(Utf8Encode(TxIdA)), ToHex(Utf8Encode(TxIdA \o <<49>>))}

\* the inputs on which the deposit verifier is checked as a function:
\* expected amounts 2.01 and 2.30 (hundredths), transfers of 2.009999, 2.01,
\* 2.30 and 2.300001 (minor units), and as memo data: none, the memo
\* "121212121212", the memo "X121212121212y", the memo "212121212121", data
\* that is no hexadecimal ("zz", "3"), and bytes that are no UTF-8 ("ff")
VerifierAmounts == {201, 230}

VerifierValues == {2009999, 2010000, 2300000, 2300001}

VerifierData ==
    {<<>>, ToHex(Utf8Encode(TxIdA)), ToHex(Utf8Encode(<<88>> \o TxIdA \o <<121>>)),
     ToHex(Utf8Encode(TxIdB)), <<"z", "z">>, <<"3">>, <<"f", "f">>}

None == "None"

\* the numbers a user types as a rating
Scores == {0, 1, 5, 6}

\* ------------------------------------------------------------------------
\* The float and string computations of the handlers, evaluated once for the
\* inputs above

\* float(tx.amount) of a DECIMAL amount of c hundredths: the double nearest c/100
AmountFloat == [c \in Prices \cup VerifierAmounts |-> FDivSmall(FFromInt(c), 25, 2)]

\* transferred_amount / 1e6 (verify_deposit), float(raw_amount) / 1e6 (parse)
ValueFloat == [v \in DepositValues \cup VerifierValues |-> FDiv1e6(FFromInt(v))]

\* net_amount = original_amount * (1 - NORMAL_COMMISSION_RATE), line 1399
NetAmount == [c \in Prices |->
                 FMul(AmountFloat[c], FSub(FFromInt(1), NORMAL_COMMISSION_RATE))]

\* refund_amount = expected_amount * (1 - (NORMAL_COMMISSION_RATE / 2)), line 1586
RefundAmount == [c \in Prices |->
                    FMul(AmountFloat[c], FSub(FFromInt(1), FHalf(NORMAL_COMMISSION_RATE)))]

Floats == {AmountFloat[c] : c \in DOMAIN AmountFloat}
          \cup {ValueFloat[v] : v \in DOMAIN ValueFloat}
          \cup {NetAmount[c] : c \in Prices} \cup {RefundAmount[c] : c \in Prices}
          \cup {FFromInt(0)}

\* x < y
Less == [x \in Floats, y \in Floats |-> FLess(x, y)]

\* int(x * 1e6)
Units == [x \in Floats |-> FToInt(FMul(x, F1e6))]

\* bytes.fromhex(data_hex).decode("utf-8") if data_hex else ""
Memo == [d \in DataPool \cup VerifierData |->
            IF d = <<>> THEN [ok |-> TRUE, val |-> <<>>]
            ELSE LET raw == FromHex(d)
                 IN  IF raw.ok THEN Utf8Decode(raw.val) ELSE Fail]

\* internal_txid.lower() in memo.lower()
MemoHas == [t \in TxIds, memo \in {Memo[d].val : d \in DOMAIN Memo} \cup {<<>>} |->
               Contains(Lower(t), Lower(memo))]

NonTerminal == {"pending", "accepted", "deposit_confirmed", "deposit_confirmed_over"}

Statuses == NonTerminal \cup {"completed", "cancelled"}

\* ------------------------------------------------------------------------
\* State
VARIABLES
    items,          \* table items: id -> [price, seller_id, status]
    next_item_id,   \* its auto-increment key
    transactions,   \* table transactions: id -> row
    next_tx_id,     \* its auto-increment key
    ledger,         \* the chain transfers to TRON_WALLET: txid -> [value, data]
    transfers,      \* the calls of send_usdt so far, in order
    confirming,     \* confirm_payment handlers between their commit and their transfer
    user_data,      \* context.user_data of each user (refund keys)
    refund_state,   \* refund_handler's conversation state of each user
    cancel_state,   \* cancel_handler's conversation state of each user
    rate_state,     \* rate_handler's conversation state of each user
    active_chats,   \* the relay pairings: <<transaction_id, buyer_id, seller_id>>
    ratings,        \* table ratings, in order of insertion
    last,           \* the last command handled and the reply it got
    used,           \* history: <<row id, chain txid>> of every matched verification
    visited         \* history: the rows that have been in deposit_confirmed_over

vars == <<items, next_item_id, transactions, next_tx_id, ledger, transfers,
          confirming, user_data, refund_state, cancel_state, rate_state,
          active_chats, ratings, last, used, visited>>

\* what the handlers of the escrow engine never touch
desk == <<cancel_state, rate_state, ratings>>

\* what the handlers of the catalogue, the ratings and the relay never touch
escrow == <<transactions, next_tx_id, ledger, transfers, confirming, used, visited>>

END == "END"

WAITING_FOR_REFUND_WALLET == "WAITING_FOR_REFUND_WALLET"

WAITING_FOR_CANCEL_ID == "WAITING_FOR_CANCEL_ID"

WAITING_FOR_RATING == "WAITING_FOR_RATING"

WAITING_FOR_CONFIRMATION == "WAITING_FOR_CONFIRMATION"

\* an absent transaction reference (None), as a string that names no row
NoTx == <<>>

\* context.user_data of a user who has typed nothing yet (absent keys are None)
NoUserData ==
    [refund_txid |-> NoTx, refund_amount |-> None,
     rating_txid |-> NoTx, current_chat_tx |-> NoTx]

Reply(cmd, u, t, res) == [cmd |-> cmd, res |-> res]

\* session.query(Transaction).filter_by(transaction_id=t).filter(status in S).first():
\* the row's id, or 0 when there is none (transaction_id is unique)
FindTx(t, S) ==
    LET hits == {id \in DOMAIN transactions :
                    transactions[id].transaction_id = t /\ transactions[id].status \in S}
    IN  IF hits = {} THEN 0 ELSE CHOOSE id \in hits : TRUE

SetStatus(txs, id, st) == [txs EXCEPT ![id].status = st]

\* the rows that have been in deposit_confirmed_over, once the table is txs
Visit(txs) ==
    visited \cup {id \in DOMAIN txs : txs[id].status = "deposit_confirmed_over"}

\* the send_usdt calls of confirm_payment for row id
PayoutsOf(id) == {k \in 1..Len(transfers) : transfers[k].site = "confirm" /\ transfers[k].tx = id}

\* the confirm_payment handlers of row id that have committed and not yet transferred
FramesOf(id) == {k \in 1..Len(confirming) : confirming[k].tx = id}

\* variant of IsSeller that lets every user through
IsSellerAnyone(u, tx) == TRUE

\* lines 1308 and 1347: update.message.from_user.id != tx.seller_id
IsSeller(u, tx) == u = tx.seller_id

\* variant of IsBuyer that lets every user through
IsBuyerAnyone(u, tx) == TRUE

\* line 1387: update.message.from_user.id != tx.buyer_id
IsBuyer(u, tx) == u = tx.buyer_id

\* variant of ConfirmStatuses that also finds completed rows
ConfirmStatusesWithCompleted == {"deposit_confirmed", "completed"}

\* line 1383: filter_by(transaction_id=t_id, status="deposit_confirmed")
ConfirmStatuses == {"deposit_confirmed"}

\* variant of OverStatus that treats an over-payment as an exact payment
OverStatusAsExact == "deposit_confirmed"

\* line 229: tx.status = "deposit_confirmed_over"
OverStatus == "deposit_confirmed_over"

\* variant of Accepted that leaves the payout address as it is
AcceptedWithoutWallet(txs, id, seller_wallet) == [txs EXCEPT ![id].status = "accepted"]

\* lines 1312-1313: tx.session_id = seller_wallet; tx.status = "accepted"
Accepted(txs, id, seller_wallet) ==
    [txs EXCEPT ![id].session_id = seller_wallet, ![id].status = "accepted"]

\* the empty database
Init ==
    /\ items = <<>>
    /\ next_item_id = 1
    /\ transactions = <<>>
    /\ next_tx_id = 1
    /\ ledger = <<>>
    /\ transfers = <<>>
    /\ confirming = <<>>
    /\ user_data = [u \in Users |-> NoUserData]
    /\ refund_state = [u \in Users |-> END]
    /\ cancel_state = [u \in Users |-> END]
    /\ rate_state = [u \in Users |-> END]
    /\ active_chats = {}
    /\ ratings = <<>>
    /\ last = Reply("start", 0, <<>>, "ok")
    /\ used = {}
    /\ visited = {}

\* the database once user 1 has listed one item (/sell), at either price
InitListed ==
    /\ \E p \in Prices :
           items = (1 :> [price |-> p, seller_id |-> 1, status |-> "available"])
    /\ next_item_id = 2
    /\ transactions = <<>>
    /\ next_tx_id = 1
    /\ ledger = <<>>
    /\ transfers = <<>>
    /\ confirming = <<>>
    /\ user_data = [u \in Users |-> NoUserData]
    /\ refund_state = [u \in Users |-> END]
    /\ cancel_state = [u \in Users |-> END]
    /\ rate_state = [u \in Users |-> END]
    /\ active_chats = {}
    /\ ratings = <<>>
    /\ last = Reply("sell", 1, <<>>, "ok")
    /\ used = {}
    /\ visited = {}

\* the database once user 2 has made two offers on that item (/offer twice),
\* which got the ids "121212121212" and "212121212121"
InitTwoOffers ==
    /\ \E p \in Prices :
           /\ items = (1 :> [price |-> p, seller_id |-> 1, status |-> "available"])
           /\ transactions =
                  [id \in {1, 2} |->
                      [item_id |-> 1, buyer_id |-> 2, seller_id |-> 1,
                       status |-> "pending", session_id |-> None,
                       transaction_id |-> IF id = 1 THEN TxIdA ELSE TxIdB,
                       amount |-> p]]
    /\ next_item_id = 2
    /\ next_tx_id = 3
    /\ ledger = <<>>
    /\ transfers = <<>>
    /\ confirming = <<>>
    /\ user_data = [u \in Users |-> NoUserData]
    /\ refund_state = [u \in Users |-> END]
    /\ cancel_state = [u \in Users |-> END]
    /\ rate_state = [u \in Users |-> END]
    /\ active_chats = {}
    /\ ratings = <<>>
    /\ last = Reply("offer", 2, TxIdB, "ok")
    /\ used = {}
    /\ visited = {}

\* ------------------------------------------------------------------------
\* Deposit verification and settlement (bot.py 115-253)

\* send_usdt transfers int(amount * 1e6) minor units
SendUnits(amount) == Units[amount]

\* variant of verify_deposit that matches every txid
verify_deposit_any(expected_amount, txid, internal_txid) ==
    [valid |-> TRUE, actual |-> expected_amount]

\* variant of VerifyFailed that lets the deposit through
VerifyFailedOpen == [valid |-> TRUE, actual |-> FFromInt(0)]

\* lines 132-134: except Exception: return (False, 0)
VerifyFailed == [valid |-> FALSE, actual |-> FFromInt(0)]

\* verify_deposit(expected_amount, txid, internal_txid) -> (valid, actual_amount);
\* a transaction that cannot be fetched or decoded raises, which gives (False, 0)
verify_deposit(expected_amount, txid, internal_txid) ==
    IF txid \notin DOMAIN ledger \/ ~Memo[ledger[txid].data].ok
    THEN VerifyFailed
    ELSE [valid  |-> /\ ledger[txid].value = Units[expected_amount]
                     /\ MemoHas[internal_txid, Memo[ledger[txid].data].val],
          actual |-> ValueFloat[ledger[txid].value]]

\* check_usdt_payment(expected_amount, txid, internal_txid) -> (valid,
\* actual_amount) with a txid and a reference (bot.py 136-142): the result of
\* verify_deposit, kept in last with the arguments.  amount is the DECIMAL
\* amount, in hundredths, whose float is expected_amount; txid 0 is a txid
\* the chain does not know.
check_usdt_payment(amount, txid, internal_txid) ==
    /\ last' = [cmd |-> "verify_deposit",
                res |-> IF verify_deposit(AmountFloat[amount], txid, internal_txid).valid
                        THEN "matched" ELSE "unmatched",
                amount |-> amount, txid |-> txid, internal_txid |-> internal_txid,
                actual |-> verify_deposit(AmountFloat[amount], txid, internal_txid).actual]
    /\ UNCHANGED <<items, next_item_id, transactions, next_tx_id, ledger, transfers,
                   confirming, user_data, refund_state, active_chats, desk, used, visited>>

\* parse_trc20_transaction(tx_info) -> (amount_float, memo_str)
parse_trc20_transaction(tx_info) ==
    [amt  |-> ValueFloat[tx_info.value],
     memo |-> IF Memo[tx_info.data].ok THEN Memo[tx_info.data].val ELSE <<>>]

\* process_deposit_confirmation(session, tx, deposited_amount, context) on row
\* id of txs; ok tells whether the refund's send_usdt succeeds.  Gives the new
\* table, the send_usdt calls made, and whether an exception left the function.
process_deposit_confirmation(txs, id, deposited_amount, ok) ==
    IF Less[deposited_amount, AmountFloat[txs[id].amount]]
    THEN [txs   |-> IF ok THEN SetStatus(txs, id, "cancelled") ELSE txs,
          sends |-> <<[site |-> "underpaid", tx |-> id, to |-> txs[id].buyer_id,
                       amount |-> SendUnits(deposited_amount),
                       memo |-> txs[id].transaction_id, ok |-> ok]>>,
          raised |-> ~ok]
    ELSE IF Less[AmountFloat[txs[id].amount], deposited_amount]
    THEN [txs |-> SetStatus(txs, id, OverStatus), sends |-> <<>>,
          raised |-> FALSE]
    ELSE [txs |-> SetStatus(txs, id, "deposit_confirmed"), sends |-> <<>>,
          raised |-> FALSE]

\* ------------------------------------------------------------------------
\* The chain: somebody transfers value minor units to TRON_WALLET with memo
\* data (not a handler of the bot; the buyer or anyone else does it)
Deposit(value, data) ==
    /\ Len(ledger) < MaxChain
    /\ ledger' = Append(ledger, [value |-> value, data |-> data])
    /\ last' = Reply("deposit", 0, <<>>, "none")
    /\ UNCHANGED <<items, next_item_id, transactions, next_tx_id, transfers,
                   confirming, user_data, refund_state, active_chats, desk, used, visited>>

\* ------------------------------------------------------------------------
\* auto_verify_deposits (bot.py 960-987), run every 60 seconds.  It has no
\* await, so it is one step.

\* the lists fetch_recent_trc20_transactions can return: some of the chain
\* transfers in some order ([] also when the request fails)
RECURSIVE Arrangements(_)
Arrangements(S) ==
    {<<>>} \cup UNION {{<<x>> \o r : r \in Arrangements(S \ {x})} : x \in S}

\* variant of SweepMatches that does not look at the memo
SweepMatchesAnyMemo(tx, tx_info) ==
    ~Less[parse_trc20_transaction(tx_info).amt, AmountFloat[tx.amount]]

\* variant of SweepMatches that wants more than the amount
SweepMatchesOverOnly(tx, tx_info) ==
    /\ MemoHas[tx.transaction_id, parse_trc20_transaction(tx_info).memo]
    /\ Less[AmountFloat[tx.amount], parse_trc20_transaction(tx_info).amt]

\* lines 979-980: the reference is in the memo and the amount is enough
SweepMatches(tx, tx_info) ==
    /\ MemoHas[tx.transaction_id, parse_trc20_transaction(tx_info).memo]
    /\ ~Less[parse_trc20_transaction(tx_info).amt, AmountFloat[tx.amount]]

\* lines 978-983: the first transfer of recent_list that matches tx, or 0
FirstMatch(tx, recent_list) ==
    Head(SelectSeq(recent_list, LAMBDA x : SweepMatches(tx, ledger[x])) \o <<0>>)

\* variant of SweepHit that takes the rows of every status
SweepHitAnyStatus(id, recent_list) ==
    FirstMatch(transactions[id], recent_list) # 0

\* lines 964 and 977-980: row id is accepted and a transfer matches it
SweepHit(id, recent_list) ==
    /\ transactions[id].status = "accepted"
    /\ FirstMatch(transactions[id], recent_list) # 0

\* line 982 for row id: process_deposit_confirmation with the matched amount
SweepRow(id, recent_list, ok) ==
    process_deposit_confirmation(transactions, id,
        parse_trc20_transaction(ledger[FirstMatch(transactions[id], recent_list)]).amt, ok)

\* the rows the loop of line 977 processes: those that match, up to the
\* first one whose processing raises (line 984 catches it outside the loop)
SweepRows(recent_list, ok) ==
    {id \in DOMAIN transactions :
        /\ SweepHit(id, recent_list)
        /\ \A j \in DOMAIN transactions :
               j < id /\ SweepHit(j, recent_list) => ~SweepRow(j, recent_list, ok).raised}

\* the table once the rows are processed
SweepTable(rows, recent_list, ok) ==
    [id \in DOMAIN transactions |->
        IF id \in rows THEN SweepRow(id, recent_list, ok).txs[id] ELSE transactions[id]]

\* the send_usdt calls of the rows of senders, in the order of the loop
SweepSends(senders, recent_list, ok) ==
    [k \in 1..Cardinality(senders) |->
        SweepRow(CHOOSE i \in senders : Cardinality({j \in senders : j < i}) = k - 1,
                 recent_list, ok).sends[1]]

SweepCommit(rows, recent_list, ok) ==
    /\ transactions' = SweepTable(rows, recent_list, ok)
    /\ transfers' = transfers \o
           SweepSends({id \in rows : SweepRow(id, recent_list, ok).sends # <<>>},
                      recent_list, ok)
    /\ used' = used \cup {<<id, FirstMatch(transactions[id], recent_list)>> : id \in rows}
    /\ visited' = Visit(SweepTable(rows, recent_list, ok))

auto_verify_deposits(recent_list, ok) ==
    /\ SweepCommit(SweepRows(recent_list, ok), recent_list, ok)
    /\ last' = Reply("sweep", 0, <<>>, "none")
    /\ UNCHANGED <<items, next_item_id, next_tx_id, ledger, confirming,
                   user_data, refund_state, active_chats, desk>>

\* ------------------------------------------------------------------------
\* /sell: set_item_type (bot.py 1055-1076) stores the item
set_item_type(u, price) ==
    /\ refund_state[u] = END
    /\ next_item_id <= MaxItems
    /\ items' = (next_item_id :> [price |-> price, seller_id |-> u, status |-> "available"])
                @@ items
    /\ next_item_id' = next_item_id + 1
    /\ last' = Reply("sell", u, <<>>, "ok")
    /\ UNCHANGED <<transactions, next_tx_id, ledger, transfers, confirming,
                   user_data, refund_state, active_chats, desk, used, visited>>

\* variant of OfferAmount that takes the price of the catalogue's other entry
OfferAmountOther(item_id) == CHOOSE p \in Prices : p # items[item_id].price

\* line 1198: amount=item.price
OfferAmount(item_id) == items[item_id].price

\* variant of NewTransaction that records the seller as the buyer
NewTransactionBySeller(u, item_id, t_id) ==
    [item_id |-> item_id, buyer_id |-> items[item_id].seller_id,
     seller_id |-> items[item_id].seller_id,
     status |-> "pending", session_id |-> None,
     transaction_id |-> t_id, amount |-> OfferAmount(item_id)]

\* lines 1191-1200: the row /offer inserts (status defaults to pending)
NewTransaction(u, item_id, t_id) ==
    [item_id |-> item_id, buyer_id |-> u,
     seller_id |-> items[item_id].seller_id,
     status |-> "pending", session_id |-> None,
     transaction_id |-> t_id, amount |-> OfferAmount(item_id)]

\* /offer (bot.py 1164-1224); item_id is the item the identifier resolves to,
\* t_id is what generate_transaction_id returns
offer_item(u, item_id, t_id) ==
    /\ IF ~(item_id \in DOMAIN items /\ items[item_id].status = "available")
       THEN /\ last' = Reply("offer", u, <<>>, "ItemUnavailable")
            /\ UNCHANGED <<transactions, next_tx_id, visited>>
       ELSE IF \E id \in DOMAIN transactions : transactions[id].transaction_id = t_id
       THEN \* the unique constraint fails the commit; rollback
            /\ last' = Reply("offer", u, t_id, "error")
            /\ UNCHANGED <<transactions, next_tx_id, visited>>
       ELSE LET txs == (next_tx_id :> NewTransaction(u, item_id, t_id)) @@ transactions
            IN  /\ transactions' = txs
                /\ next_tx_id' = next_tx_id + 1
                /\ visited' = Visit(txs)
                /\ last' = Reply("offer", u, t_id, "ok")
    /\ UNCHANGED <<items, next_item_id, ledger, transfers, confirming,
                   user_data, refund_state, active_chats, desk, used>>

\* variant of AcceptStatuses that finds the transaction in every status
AcceptStatusesAny == Statuses

\* line 1304: filter_by(transaction_id=t_id, status="pending")
AcceptStatuses == {"pending"}

\* /accept (bot.py 1295-1331)
accept_transaction(u, t_id, seller_wallet) ==
    LET id == FindTx(t_id, AcceptStatuses)
    IN  /\ IF id = 0
           THEN /\ last' = Reply("accept", u, t_id, "InvalidState")
                /\ UNCHANGED <<transactions, visited>>
           ELSE IF ~IsSeller(u, transactions[id])
           THEN /\ last' = Reply("accept", u, t_id, "Unauthorized")
                /\ UNCHANGED <<transactions, visited>>
           ELSE LET txs == Accepted(transactions, id, seller_wallet)
                IN  /\ transactions' = txs
                    /\ visited' = Visit(txs)
                    /\ last' = Reply("accept", u, t_id, "ok")
        /\ UNCHANGED <<items, next_item_id, next_tx_id, ledger, transfers,
                       confirming, user_data, refund_state, active_chats, desk, used>>

\* /refusal (bot.py 1335-1366): the row is deleted
refusal_transaction(u, t_id) ==
    LET id == FindTx(t_id, {"pending"})
    IN  /\ IF id = 0
           THEN /\ last' = Reply("refusal", u, t_id, "InvalidState")
                /\ UNCHANGED <<transactions, visited>>
           ELSE IF ~IsSeller(u, transactions[id])
           THEN /\ last' = Reply("refusal", u, t_id, "Unauthorized")
                /\ UNCHANGED <<transactions, visited>>
           ELSE LET txs == [i \in DOMAIN transactions \ {id} |-> transactions[i]]
                IN  /\ transactions' = txs
                    /\ visited' = Visit(txs)
                    /\ last' = Reply("refusal", u, t_id, "ok")
        /\ UNCHANGED <<items, next_item_id, next_tx_id, ledger, transfers,
                       confirming, user_data, refund_state, active_chats, desk, used>>

\* /confirm (bot.py 1371-1405), up to the await of line 1402.  The second
\* argument of the command (the buyer's wallet) is read and never used.
confirm_payment(u, t_id, txid) ==
    LET id == FindTx(t_id, ConfirmStatuses)
    IN  /\ IF id = 0
           THEN /\ last' = Reply("confirm", u, t_id, "InvalidState")
                /\ UNCHANGED <<transactions, visited, confirming, used>>
           ELSE IF ~IsBuyer(u, transactions[id])
           THEN /\ last' = Reply("confirm", u, t_id, "Unauthorized")
                /\ UNCHANGED <<transactions, visited, confirming, used>>
           ELSE IF ~verify_deposit(AmountFloat[transactions[id].amount], txid, t_id).valid
           THEN /\ last' = Reply("confirm", u, t_id, "VerificationFailed")
                /\ UNCHANGED <<transactions, visited, confirming, used>>
           ELSE LET net_amount == NetAmount[transactions[id].amount]
                    txs == SetStatus(transactions, id, "completed")
                IN  /\ transactions' = txs
                    /\ visited' = Visit(txs)
                    /\ confirming' = Append(confirming,
                           [tx |-> id, t_id |-> t_id, net_amount |-> net_amount])
                    /\ used' = used \cup {<<id, txid>>}
                    /\ last' = Reply("confirm", u, t_id, "ok")
        /\ UNCHANGED <<items, next_item_id, next_tx_id, ledger, transfers,
                       user_data, refund_state, active_chats, desk>>

\* variant of FramesAfter in which a handler whose transfer failed stays to
\* transfer again
FramesAfterRetrying(k, ok) ==
    IF ok THEN SubSeq(confirming, 1, k - 1) \o SubSeq(confirming, k + 1, Len(confirming))
    ELSE confirming

\* lines 1406-1422: the handler ends after its transfer, whether send_usdt
\* returned (ok) or raised (line 1415 logs the exception)
FramesAfter(k, ok) ==
    SubSeq(confirming, 1, k - 1) \o SubSeq(confirming, k + 1, Len(confirming))

\* /confirm (bot.py 1406-1416), after the await: the transfer to the seller;
\* ok tells whether send_usdt returns or raises (the exception is logged)
confirm_payment_send(k, ok) ==
    /\ k \in 1..Len(confirming)
    /\ LET f == confirming[k]
           seller_wallet == transactions[f.tx].session_id
       IN  /\ transfers' = Append(transfers,
                  [site |-> "confirm", tx |-> f.tx, to |-> seller_wallet,
                   amount |-> SendUnits(f.net_amount), memo |-> f.t_id, ok |-> ok])
           /\ last' = Reply("confirm_send", transactions[f.tx].buyer_id, f.t_id,
                            IF ok THEN "ok" ELSE "SettlementFailure")
    /\ confirming' = FramesAfter(k, ok)
    /\ UNCHANGED <<items, next_item_id, transactions, next_tx_id, ledger,
                   user_data, refund_state, active_chats, desk, used, visited>>

\* variant of Unpaired that leaves the pairings as they are
StillPaired(t_id) == active_chats

\* lines 1550-1551 and 1636-1637: active_chats.pop(t_id)
Unpaired(t_id) == {c \in active_chats : c[1] # t_id}

\* variant of IsParty that lets every user through
IsPartyAnyone(u, tx) == TRUE

\* line 1544: update.message.from_user.id not in [tx.buyer_id, tx.seller_id]
IsParty(u, tx) == u \in {tx.buyer_id, tx.seller_id}

\* /off (bot.py 1529-1558)
off_transaction(u, t_id) ==
    LET id == FindTx(t_id, Statuses)
    IN  /\ IF id = 0
           THEN /\ last' = Reply("off", u, t_id, "InvalidState")
                /\ UNCHANGED <<transactions, visited, active_chats>>
           ELSE IF transactions[id].status \notin
                      {"pending", "accepted", "deposit_confirmed", "deposit_confirmed_over"}
           THEN /\ last' = Reply("off", u, t_id, "InvalidState")
                /\ UNCHANGED <<transactions, visited, active_chats>>
           ELSE IF ~IsParty(u, transactions[id])
           THEN /\ last' = Reply("off", u, t_id, "Unauthorized")
                /\ UNCHANGED <<transactions, visited, active_chats>>
           ELSE LET txs == SetStatus(transactions, id, "cancelled")
                IN  /\ transactions' = txs
                    /\ visited' = Visit(txs)
                    /\ active_chats' = Unpaired(t_id)
                    /\ last' = Reply("off", u, t_id, "ok")
        /\ UNCHANGED <<items, next_item_id, next_tx_id, ledger, transfers,
                       confirming, user_data, refund_state, desk, used>>

\* variant of IsAdmin that lets every user through
IsAdminAnyone(u) == TRUE

\* line 1620: update.message.from_user.id != ADMIN_TELEGRAM_ID
IsAdmin(u) == u = ADMIN_TELEGRAM_ID

\* /warexit (bot.py 1619-1644)
warexit_command(u, t_id) ==
    LET id == FindTx(t_id, Statuses)
    IN  /\ IF ~IsAdmin(u)
           THEN /\ last' = Reply("warexit", u, t_id, "Unauthorized")
                /\ UNCHANGED <<transactions, visited, active_chats>>
           ELSE IF id = 0
           THEN /\ last' = Reply("warexit", u, t_id, "InvalidState")
                /\ UNCHANGED <<transactions, visited, active_chats>>
           ELSE LET txs == SetStatus(transactions, id, "cancelled")
                IN  /\ transactions' = txs
                    /\ visited' = Visit(txs)
                    /\ active_chats' = Unpaired(t_id)
                    /\ last' = Reply("warexit", u, t_id, "ok")
        /\ UNCHANGED <<items, next_item_id, next_tx_id, ledger, transfers,
                       confirming, user_data, refund_state, desk, used>>

\* /refund (bot.py 1562-1599); balance_ok is the outcome of the wallet
\* balance check that check_usdt_payment makes when it is given no txid
refund_request(u, t_id, balance_ok) ==
    LET id == FindTx(t_id, {"deposit_confirmed_over"})
    IN  /\ refund_state[u] = END
        /\ IF id = 0
           THEN /\ last' = Reply("refund", u, t_id, "InvalidState")
                /\ UNCHANGED <<user_data, refund_state>>
           ELSE IF u # transactions[id].buyer_id
           THEN /\ last' = Reply("refund", u, t_id, "Unauthorized")
                /\ UNCHANGED <<user_data, refund_state>>
           ELSE IF ~balance_ok
           THEN /\ last' = Reply("refund", u, t_id, "VerificationFailed")
                /\ UNCHANGED <<user_data, refund_state>>
           ELSE LET refund_amount == RefundAmount[transactions[id].amount]
                IN  /\ user_data' = [user_data EXCEPT ![u].refund_txid = t_id,
                                                      ![u].refund_amount = refund_amount]
                    /\ refund_state' = [refund_state EXCEPT ![u] = WAITING_FOR_REFUND_WALLET]
                    /\ last' = Reply("refund", u, t_id, "ok")
        /\ UNCHANGED <<active_chats, desk, items, next_item_id, transactions, next_tx_id, ledger,
                       transfers, confirming, used, visited>>

\* the refund conversation's text step (bot.py 1601-1615); ok tells whether
\* send_usdt returns or raises
process_refund(u, buyer_wallet, ok) ==
    /\ refund_state[u] = WAITING_FOR_REFUND_WALLET
    /\ LET t_id == user_data[u].refund_txid
           refund_amount == user_data[u].refund_amount
       IN  /\ transfers' = Append(transfers,
                  [site |-> "refund", tx |-> FindTx(t_id, Statuses), to |-> buyer_wallet,
                   amount |-> SendUnits(refund_amount), memo |-> t_id, ok |-> ok])
           /\ last' = Reply("refund_wallet", u, t_id,
                            IF ok THEN "ok" ELSE "SettlementFailure")
    /\ refund_state' = [refund_state EXCEPT
                           ![u] = IF ok THEN END ELSE WAITING_FOR_REFUND_WALLET]
    /\ UNCHANGED <<active_chats, desk, items, next_item_id, transactions, next_tx_id, ledger,
                   confirming, user_data, used, visited>>

\* the send_usdt calls process_refund has made
RefundsSent == Cardinality({k \in 1..Len(transfers) : transfers[k].site = "refund"})

\* /cancel (bot.py 1228-1258): lists the caller's available items
cancel(u) ==
    /\ cancel_state[u] = END
    /\ IF \A i \in DOMAIN items :
              ~(items[i].seller_id = u /\ items[i].status = "available")
       THEN /\ last' = Reply("cancel", u, <<>>, "NothingToCancel")
            /\ UNCHANGED cancel_state
       ELSE /\ cancel_state' = [cancel_state EXCEPT ![u] = WAITING_FOR_CANCEL_ID]
            /\ last' = Reply("cancel", u, <<>>, "ok")
    /\ UNCHANGED <<items, next_item_id, escrow, user_data, refund_state,
                   rate_state, active_chats, ratings>>

\* the cancel conversation's text step (bot.py 1260-1291); item_id is the
\* item the identifier names.  refund_handler is registered before
\* cancel_handler and takes the text of a user it is waiting for.
cancel_item(u, item_id) ==
    /\ refund_state[u] = END
    /\ cancel_state[u] = WAITING_FOR_CANCEL_ID
    /\ IF ~(/\ item_id \in DOMAIN items
            /\ items[item_id].seller_id = u
            /\ items[item_id].status = "available")
       THEN /\ last' = Reply("cancel_item", u, <<>>, "Invalid")
            /\ UNCHANGED <<items, cancel_state>>
       ELSE /\ items' = [i \in DOMAIN items \ {item_id} |-> items[i]]
            /\ cancel_state' = [cancel_state EXCEPT ![u] = END]
            /\ last' = Reply("cancel_item", u, <<>>, "ok")
    /\ UNCHANGED <<next_item_id, escrow, user_data, refund_state,
                   rate_state, active_chats, ratings>>

\* /rate (bot.py 1426-1445).  A /rate that names no completed transaction
\* returns WAITING_FOR_RATING, a state rate_handler has no handler for.
rate_user(u, t_id) ==
    /\ rate_state[u] = END
    /\ Cardinality({v \in Users : rate_state[v] # END}) < MaxRaters
    /\ IF FindTx(t_id, {"completed"}) = 0
       THEN /\ rate_state' = [rate_state EXCEPT ![u] = WAITING_FOR_RATING]
            /\ last' = Reply("rate", u, t_id, "InvalidState")
            /\ UNCHANGED user_data
       ELSE /\ user_data' = [user_data EXCEPT ![u].rating_txid = t_id]
            /\ rate_state' = [rate_state EXCEPT ![u] = WAITING_FOR_CONFIRMATION]
            /\ last' = Reply("rate", u, t_id, "ok")
    /\ UNCHANGED <<items, next_item_id, escrow, refund_state, cancel_state,
                   active_chats, ratings>>

\* variant of RatingStatuses that finds the transaction in every status
RatingStatusesAny == Statuses

\* line 1455: filter_by(transaction_id=t_id, status="completed")
RatingStatuses == {"completed"}

\* the rate conversation's text step (bot.py 1447-1474); a text that is no
\* number is answered like a score out of range (score 0 stands for it)
save_rating(u, score) ==
    /\ refund_state[u] = END
    /\ cancel_state[u] = END
    /\ rate_state[u] = WAITING_FOR_CONFIRMATION
    /\ Len(ratings) < MaxRatings
    /\ LET id == FindTx(user_data[u].rating_txid, RatingStatuses)
       IN  IF score < 1 \/ score > 5
           THEN /\ last' = Reply("rating", u, <<>>, "OutOfRange")
                /\ UNCHANGED <<ratings, rate_state>>
           ELSE IF id = 0
           THEN /\ rate_state' = [rate_state EXCEPT ![u] = END]
                /\ last' = Reply("rating", u, <<>>, "InvalidState")
                /\ UNCHANGED ratings
           ELSE /\ ratings' = Append(ratings,
                       [user_id |-> IF u = transactions[id].buyer_id
                                    THEN transactions[id].seller_id
                                    ELSE transactions[id].buyer_id,
                        score |-> score])
                /\ rate_state' = [rate_state EXCEPT ![u] = END]
                /\ last' = Reply("rating", u, <<>>, "ok")
    /\ UNCHANGED <<items, next_item_id, escrow, user_data, refund_state,
                   cancel_state, active_chats>>

\* line 1488: the statuses in which /chat finds a transaction
ChatStatuses == {"accepted", "deposit_confirmed", "deposit_confirmed_over", "completed"}

\* variant of IsChatParty that lets every user through
IsChatPartyAnyone(u, tx) == TRUE

\* line 1493: user_id not in [tx.buyer_id, tx.seller_id]
IsChatParty(u, tx) == u \in {tx.buyer_id, tx.seller_id}

\* /chat (bot.py 1480-1503)
start_chat(u, t_id) ==
    LET id == FindTx(t_id, ChatStatuses)
    IN  /\ IF id = 0
           THEN /\ last' = Reply("chat", u, t_id, "InvalidState")
                /\ UNCHANGED <<active_chats, user_data>>
           ELSE IF ~IsChatParty(u, transactions[id])
           THEN /\ last' = Reply("chat", u, t_id, "Unauthorized")
                /\ UNCHANGED <<active_chats, user_data>>
           ELSE /\ active_chats' = Unpaired(t_id) \cup
                       {<<t_id, transactions[id].buyer_id, transactions[id].seller_id>>}
                /\ user_data' = [user_data EXCEPT ![u].current_chat_tx = t_id]
                /\ last' = Reply("chat", u, t_id, "ok")
        /\ UNCHANGED <<items, next_item_id, escrow, refund_state, desk>>

\* relay_message (bot.py 1505-1525), the handler of every message that is no
\* command and that no conversation takes: forwards it to the other party of
\* the caller's current chat
relay_message(u) ==
    /\ refund_state[u] = END
    /\ cancel_state[u] = END
    /\ rate_state[u] # WAITING_FOR_CONFIRMATION
    /\ last' = Reply("relay", u, <<>>,
                     IF \E c \in active_chats :
                            c[1] = user_data[u].current_chat_tx /\ u \in {c[2], c[3]}
                     THEN "forwarded" ELSE "dropped")
    /\ UNCHANGED <<items, next_item_id, escrow, user_data, refund_state,
                   active_chats, desk>>

\* /exit (bot.py 1648-1654).  The command handler is registered before the
\* conversations (1717), so it takes every /exit and its return value END
\* changes no conversation.
exit_to_start(u) ==
    /\ IF user_data[u].current_chat_tx # NoTx
       THEN /\ last' = Reply("exit", u, <<>>, "ChatActive")
            /\ UNCHANGED user_data
       ELSE /\ user_data' = [user_data EXCEPT ![u] = NoUserData]
            /\ last' = Reply("exit", u, <<>>, "ok")
    /\ UNCHANGED <<items, next_item_id, escrow, refund_state, active_chats, desk>>

\* process_deposit_confirmation (bot.py 211-253) called on the accepted row
\* id with a deposit of value minor units, whatever its caller checked before;
\* ok tells whether the refund's send_usdt returns or raises
DepositConfirmation(id, value, ok) ==
    /\ id \in DOMAIN transactions
    /\ transactions[id].status = "accepted"
    /\ Cardinality({k \in 1..Len(transfers) : transfers[k].site = "underpaid"}) < MaxRefunds
    /\ LET r == process_deposit_confirmation(transactions, id, ValueFloat[value], ok)
       IN  /\ transactions' = r.txs
           /\ transfers' = transfers \o r.sends
           /\ visited' = Visit(r.txs)
           /\ last' = Reply("deposit_confirmation", 0, <<>>,
                            IF r.raised THEN "raised" ELSE "none")
    /\ UNCHANGED <<items, next_item_id, next_tx_id, ledger, confirming,
                   user_data, refund_state, active_chats, desk, used>>

\* ------------------------------------------------------------------------
\* The steps on existing transactions
Escrow ==
    \/ \E v \in DepositValues, d \in DataPool : Deposit(v, d)
    \/ \E r \in Arrangements(DOMAIN ledger), ok \in BOOLEAN : auto_verify_deposits(r, ok)
    \/ \E u \in Users, t \in TxIds, w \in Wallets : accept_transaction(u, t, w)
    \/ \E u \in Users, t \in TxIds : refusal_transaction(u, t)
    \/ \E u \in Users, t \in TxIds, x \in 1..MaxChain : confirm_payment(u, t, x)
    \/ \E k \in DOMAIN confirming, ok \in BOOLEAN : confirm_payment_send(k, ok)
    \/ \E u \in Users, t \in TxIds : off_transaction(u, t)
    \/ \E u \in Users, t \in TxIds : warexit_command(u, t)

\* The escrow engine over one listed item
Next ==
    \/ \E u \in Buyers, i \in 1..MaxItems, t \in TxIds :
           next_tx_id <= MaxTx /\ offer_item(u, i, t)
    \/ Escrow

Spec == InitListed /\ [][Next]_vars

\* line 1731: run_repeating(auto_verify_deposits, interval=60) keeps running
\* the sweep; a run whose request succeeds sees every recent transfer
SweepSeeingAll ==
    \E r \in Arrangements(DOMAIN ledger), ok \in BOOLEAN :
        Len(r) = Len(ledger) /\ auto_verify_deposits(r, ok)

\* The escrow engine with the recurring sweep
SpecSweep == InitListed /\ [][Next]_vars /\ WF_vars(SweepSeeingAll)

\* The escrow engine, with /confirm also given a txid the chain does not know
NextRecheck ==
    \/ \E u \in Users, t \in TxIds : confirm_payment(u, t, 0)
    \/ Next

SpecRecheck == InitListed /\ [][NextRecheck]_vars

\* The escrow engine, with /accept given either of two payout addresses
NextPayout ==
    \/ \E u \in Users, t \in TxIds, w \in PayoutWallets : accept_transaction(u, t, w)
    \/ Next

SpecPayout == InitListed /\ [][NextPayout]_vars

\* The escrow engine, with a second /offer allowed on the listed item at any
\* moment of the first transaction's life
NextResale ==
    \/ \E u \in Buyers, i \in 1..MaxItems, t \in TxIds :
           next_tx_id <= MaxOffers /\ offer_item(u, i, t)
    \/ Escrow

SpecResale == InitListed /\ [][NextResale]_vars

\* The escrow engine over two offers made on one item
SpecTwoOffers == InitTwoOffers /\ [][Escrow]_vars

\* Listing, offers, escrow and over-payment refunds, from the empty database
Catalogue ==
    \/ \E u \in Sellers, p \in Prices : set_item_type(u, p)
    \/ \E u \in Users : cancel(u)
    \/ \E u \in Users, i \in 1..MaxItems : cancel_item(u, i)

\* the over-payment refund conversation
Refunds ==
    \/ \E u \in Users, t \in TxIds, b \in BOOLEAN : refund_request(u, t, b)
    \/ \E u \in Users, w \in Wallets, ok \in BOOLEAN :
           RefundsSent < MaxRefunds /\ process_refund(u, w, ok)

NextAll ==
    \/ Catalogue
    \/ Refunds
    \/ Next

SpecAll == Init /\ [][NextAll]_vars

\* the refund conversations that are let through to their transfer
RefundRounds == MaxRefunds + 1

\* The escrow engine with refunds that can be repeated, and with deposits
\* that over-pay by little
NextRefunds ==
    \/ \E v \in OverpaidValues, d \in DataPool : Deposit(v, d)
    \/ \E u \in Users, t \in TxIds, b \in BOOLEAN : refund_request(u, t, b)
    \/ \E u \in Users, w \in Wallets, ok \in BOOLEAN :
           RefundsSent < RefundRounds /\ process_refund(u, w, ok)
    \/ Next

SpecRefunds == InitListed /\ [][NextRefunds]_vars

\* Every command on a transaction: the escrow engine over one listed item,
\* refunds, ratings and the relay
NextDesk ==
    \/ Refunds
    \/ \E u \in Users, t \in TxIds : rate_user(u, t)
    \/ \E u \in Users, n \in Scores : save_rating(u, n)
    \/ \E u \in Users, t \in TxIds : start_chat(u, t)
    \/ \E u \in Users : relay_message(u)
    \/ Next

SpecDesk == InitListed /\ [][NextDesk]_vars

\* The marketplace: the catalogue, and offers up to their acceptance
NextMarket ==
    \/ Catalogue
    \/ \E u \in Buyers, i \in 1..MaxItems, t \in TxIds :
           next_tx_id <= MaxOffers /\ offer_item(u, i, t)
    \/ \E u \in Users, t \in TxIds, w \in Wallets : accept_transaction(u, t, w)
    \/ \E u \in Users, t \in TxIds : refusal_transaction(u, t)
    \/ \E u \in Users, t \in TxIds : off_transaction(u, t)

SpecMarket == Init /\ [][NextMarket]_vars

\* The relay: the escrow engine over one listed item, /chat and the messages
\* that are no command
NextRelay ==
    \/ \E u \in Users, t \in TxIds : start_chat(u, t)
    \/ \E u \in Users : relay_message(u)
    \/ Next

SpecRelay == InitListed /\ [][NextRelay]_vars

\* The relay with /exit
NextExit ==
    \/ \E u \in Users : exit_to_start(u)
    \/ NextRelay

SpecExit == InitListed /\ [][NextExit]_vars

\* The deposit verifier as a function: chain transfers, and verifications of
\* them against expected amounts and references
NextVerifier ==
    \/ \E v \in VerifierValues, d \in VerifierData : Deposit(v, d)
    \/ \E c \in VerifierAmounts, x \in 0..MaxChain, t \in TxIds :
           check_usdt_payment(c, x, t)

SpecVerifier == Init /\ [][NextVerifier]_vars

\* process_deposit_confirmation as a unit: the escrow engine, and the function
\* called on any accepted row with any deposited amount
NextConfirmation ==
    \/ \E id \in 1..MaxTx, v \in DepositValues, ok \in BOOLEAN :
           DepositConfirmation(id, v, ok)
    \/ Next

SpecConfirmation == InitListed /\ [][NextConfirmation]_vars

TypeOK ==
    /\ \A id \in DOMAIN transactions : transactions[id].status \in Statuses
    /\ \A k \in 1..Len(transfers) : transfers[k].amount >= 0

\* ------------------------------------------------------------------------
\* Properties

\* the minor units of a DECIMAL amount of c hundredths
ExactUnits(c) == 10000 * c

\* the minor units of 0.95 times, and of 0.975 times, an amount of c hundredths
ExactNetUnits(c) == 9500 * c

ExactRefundUnits(c) == 9750 * c

\* transfer x of the chain carries the reference of row tx in its memo
MemoNames(tx, x) ==
    MemoHas[tx.transaction_id, parse_trc20_transaction(ledger[x]).memo]

\* the rows that exist before and after a step
Kept == DOMAIN transactions \cap DOMAIN transactions'

\* the step is answered res under cmd, and changes no row and no settlement
Refused(cmd, res) ==
    /\ last' = Reply(cmd, 0, <<>>, res)
    /\ UNCHANGED <<transactions, transfers, confirming>>

\* the status edges the specification enumerates
EnumeratedEdges ==
    {<<"pending", "accepted">>, <<"pending", "rejected">>,
     <<"accepted", "cancelled">>, <<"accepted", "deposit_confirmed">>,
     <<"accepted", "deposit_confirmed_over">>, <<"deposit_confirmed", "completed">>,
     <<"deposit_confirmed_over", "completed">>}
    \cup {<<st, "cancelled">> : st \in NonTerminal}

\* C1: the status of a transaction changes only along the enumerated edges;
\* in particular no step changes the status of a completed or cancelled
\* transaction.
C1_StatusEdges ==
    [][\A id \in Kept :
          \/ transactions'[id].status = transactions[id].status
          \/ <<transactions[id].status, transactions'[id].status>> \in EnumeratedEdges]_vars

\* C2: no chain transaction is matched by the deposit verification (sweep or
\* /confirm) of more than one escrow transaction.
C2_NoDoubleSpend ==
    \A a \in used, b \in used : a[2] = b[2] => a[1] = b[1]

\* C3: when the settlement transfer of /confirm fails, the transaction is in
\* deposit_confirmed afterwards (so that /confirm can be issued again).
C3_FailedSettlementKeepsStatus ==
    [][\A k \in DOMAIN confirming :
          confirm_payment_send(k, FALSE)
              => transactions'[confirming[k].tx].status = "deposit_confirmed"]_vars

\* C4 (state part): a transaction has at most one settlement, submitted or
\* about to be submitted, and a completed transaction has exactly one.
C4_OneSettlement ==
    \A id \in DOMAIN transactions :
        /\ Cardinality(PayoutsOf(id)) + Cardinality(FramesOf(id)) <= 1
        /\ transactions[id].status = "completed"
               => Cardinality(PayoutsOf(id)) + Cardinality(FramesOf(id)) = 1

\* C4 (step part): a transaction becomes completed only from deposit_confirmed
\* and with one new settlement; a /confirm (a step answered under confirm)
\* that finds no deposit_confirmed transaction is answered InvalidState and
\* changes and submits nothing.
C4_SecondConfirm ==
    /\ \A id \in Kept :
          (transactions'[id].status = "completed" /\ transactions[id].status # "completed")
              => /\ transactions[id].status = "deposit_confirmed"
                 /\ Cardinality(FramesOf(id)') = Cardinality(FramesOf(id)) + 1
    /\ last'.cmd = "confirm" =>
          \/ Refused("confirm", "InvalidState")
          \/ \A u \in Users, t \in TxIds, x \in 1..MaxChain :
                 ~(FindTx(t, {"deposit_confirmed"}) = 0 /\ confirm_payment(u, t, x))

C5_AtMostOnePayout ==
    \A id \in 1..(next_tx_id - 1) :
        /\ Cardinality(PayoutsOf(id)) <= 1
        /\ PayoutsOf(id) # {} => FramesOf(id) = {}

\* a settlement transfer failed, and a later sweep ran without any retry
C5_Witness ==
    /\ last = Reply("sweep", 0, <<>>, "none")
    /\ confirming = <<>>
    /\ \E k \in DOMAIN transfers :
          /\ transfers[k].site = "confirm" /\ ~transfers[k].ok
          /\ Cardinality(PayoutsOf(transfers[k].tx)) = 1

\* C6: every settlement transfer that went through pays exactly
\* amount * 0.95 to the payout address stored at acceptance, with the
\* transaction reference as memo.
C6_ExactNet ==
    \A k \in DOMAIN transfers :
        (transfers[k].site = "confirm" /\ transfers[k].ok)
            => /\ transfers[k].amount = ExactNetUnits(transactions[transfers[k].tx].amount)
               /\ transfers[k].to = transactions[transfers[k].tx].session_id
               /\ transfers[k].memo = transactions[transfers[k].tx].transaction_id

\* C7 (state part): a pending transaction has no payout address.
C7_PendingUnset ==
    \A id \in DOMAIN transactions :
        transactions[id].status = "pending" => transactions[id].session_id = None

\* C7 (step part): a step that is the /accept or the /refusal of a pending
\* transaction by a user other than its seller is answered Unauthorized and
\* changes no row.
C7_NotSeller ==
    /\ last'.cmd = "accept" =>
          \/ Refused("accept", "Unauthorized")
          \/ \A u \in Users, t \in TxIds, w \in Wallets :
                 ~(/\ FindTx(t, {"pending"}) # 0
                   /\ u # transactions[FindTx(t, {"pending"})].seller_id
                   /\ accept_transaction(u, t, w))
    /\ last'.cmd = "refusal" =>
          \/ Refused("refusal", "Unauthorized")
          \/ \A u \in Users, t \in TxIds :
                 ~(/\ FindTx(t, {"pending"}) # 0
                   /\ u # transactions[FindTx(t, {"pending"})].seller_id
                   /\ refusal_transaction(u, t))

\* C7: only the seller of a pending transaction can accept or refuse it; any
\* other user's /accept or /refusal leaves it pending, without payout address
\* and not deleted.
C7_OnlySellerDecides == []C7_PendingUnset /\ [][C7_NotSeller]_vars

\* a user other than the seller was refused, and the transaction is pending
C7_Witness ==
    /\ last \in {Reply("accept", 2, TxIdA, "Unauthorized"),
                 Reply("refusal", 2, TxIdA, "Unauthorized")}
    /\ \E id \in DOMAIN transactions :
          transactions[id].status = "pending" /\ transactions[id].session_id = None

\* C8: a step that is the /confirm of a deposit_confirmed transaction by a
\* user other than its buyer is answered Unauthorized, changes no row and
\* submits no settlement.
C8_OnlyBuyerConfirms ==
    [][last'.cmd = "confirm" =>
          \/ Refused("confirm", "Unauthorized")
          \/ \A u \in Users, t \in TxIds, x \in 1..MaxChain :
                 ~(/\ FindTx(t, {"deposit_confirmed"}) # 0
                   /\ u # transactions[FindTx(t, {"deposit_confirmed"})].buyer_id
                   /\ confirm_payment(u, t, x))]_vars

\* a user other than the buyer was refused, and the transaction is still
\* deposit_confirmed with no settlement
C8_Witness ==
    /\ last = Reply("confirm", 1, TxIdA, "Unauthorized")
    /\ \E id \in DOMAIN transactions :
          /\ transactions[id].status = "deposit_confirmed"
          /\ PayoutsOf(id) = {} /\ FramesOf(id) = {}

C9_NoUnderpaidRefund ==
    \A k \in DOMAIN transfers : transfers[k].site # "underpaid"

\* C9 (step part): a transaction leaves accepted for deposit_confirmed or
\* deposit_confirmed_over only in a run of the sweep, for a chain transfer
\* whose memo contains its reference and whose amount is at least the expected
\* one (exactly the expected one for deposit_confirmed, more for
\* deposit_confirmed_over); it leaves accepted for cancelled only by /off or
\* /warexit.
C9_SweepStep ==
    \A id \in Kept :
        transactions[id].status = "accepted" =>
            /\ transactions'[id].status = "deposit_confirmed"
                  => /\ last' = Reply("sweep", 0, <<>>, "none")
                     /\ \E x \in DOMAIN ledger :
                           /\ MemoNames(transactions[id], x)
                           /\ ledger[x].value = ExactUnits(transactions[id].amount)
            /\ transactions'[id].status = "deposit_confirmed_over"
                  => /\ last' = Reply("sweep", 0, <<>>, "none")
                     /\ \E x \in DOMAIN ledger :
                           /\ MemoNames(transactions[id], x)
                           /\ ledger[x].value > ExactUnits(transactions[id].amount)
            /\ transactions'[id].status = "cancelled"
                  => last' \in {Reply("off", 0, <<>>, "ok"), Reply("warexit", 0, <<>>, "ok")}

C10_OverNeverSettled ==
    \A id \in visited : PayoutsOf(id) = {} /\ FramesOf(id) = {}

\* C10 (step part): a transaction leaves accepted for deposit_confirmed only
\* on a transfer of exactly the expected amount, never leaves accepted for
\* completed, and leaves deposit_confirmed_over only for cancelled; a /confirm
\* of a deposit_confirmed_over transaction is answered InvalidState and
\* changes and submits nothing.
C10_OverStep ==
    /\ \A id \in Kept :
          /\ (transactions[id].status = "accepted"
              /\ transactions'[id].status = "deposit_confirmed")
                 => \E x \in DOMAIN ledger :
                       /\ MemoNames(transactions[id], x)
                       /\ ledger[x].value = ExactUnits(transactions[id].amount)
          /\ transactions[id].status = "accepted"
                 => transactions'[id].status # "completed"
          /\ transactions[id].status = "deposit_confirmed_over"
                 => transactions'[id].status \in {"deposit_confirmed_over", "cancelled"}
    /\ last'.cmd = "confirm" =>
          \/ Refused("confirm", "InvalidState")
          \/ \A u \in Users, t \in TxIds, x \in 1..MaxChain :
                 ~(FindTx(t, {"deposit_confirmed_over"}) # 0 /\ confirm_payment(u, t, x))

\* C10: an over-payment moves the transaction to deposit_confirmed_over, not
\* to deposit_confirmed or completed; no settlement is ever submitted for it,
\* and /confirm is refused.
C10_OverPayment == []C10_OverNeverSettled /\ [][C10_OverStep]_vars

\* an over-payment was detected, and /confirm was refused
C10_Witness ==
    /\ last = Reply("confirm", 2, TxIdA, "InvalidState")
    /\ \E id \in DOMAIN transactions :
          /\ transactions[id].status = "deposit_confirmed_over"
          /\ id \in visited
          /\ PayoutsOf(id) = {}
          /\ \E x \in DOMAIN ledger :
                /\ <<id, x>> \in used
                /\ ledger[x].value > ExactUnits(transactions[id].amount)

\* the recent transfers of recent_list that name row tx are all below its amount
Underpaid(tx, recent_list) ==
    /\ \E i \in 1..Len(recent_list) : MemoNames(tx, recent_list[i])
    /\ \A i \in 1..Len(recent_list) :
           MemoNames(tx, recent_list[i])
               => ledger[recent_list[i]].value < ExactUnits(tx.amount)

\* C11: when a run of the sweep finds, for an accepted transaction, a deposit
\* below the expected amount, the transaction becomes cancelled and a refund
\* of the deposited amount to the buyer is attempted.
C11_UnderpaymentCancels ==
    [][\A r \in Arrangements(DOMAIN ledger), ok \in BOOLEAN :
          auto_verify_deposits(r, ok) =>
              \A id \in DOMAIN transactions :
                  (transactions[id].status = "accepted" /\ Underpaid(transactions[id], r))
                      => /\ transactions'[id].status = "cancelled"
                         /\ \E k \in DOMAIN transfers' \ DOMAIN transfers :
                               /\ transfers'[k].site = "underpaid"
                               /\ transfers'[k].tx = id]_vars

\* C12: when process_deposit_confirmation runs its under-payment branch and
\* the refund transfer fails, the transaction is cancelled all the same.
C12_FailedRefundStillCancels ==
    [][\A id \in DOMAIN transactions, v \in DepositValues :
          (/\ DepositConfirmation(id, v, FALSE)
           /\ Less[ValueFloat[v], AmountFloat[transactions[id].amount]])
              => transactions'[id].status = "cancelled"]_vars

\* C13: when the refund transfer of an over-paid transaction has been
\* submitted successfully, the transaction is completed.
C13_RefundCompletes ==
    [][\A u \in Users, w \in Wallets :
          (process_refund(u, w, TRUE) /\ FindTx(user_data[u].refund_txid, Statuses) # 0)
              => transactions'[FindTx(user_data[u].refund_txid, Statuses)].status
                     = "completed"]_vars

\* C14: every refund transfer that went through pays exactly amount * 0.975
\* (amount less half the normal commission).
C14_ExactRefund ==
    \A k \in DOMAIN transfers :
        (transfers[k].site = "refund" /\ transfers[k].ok /\ transfers[k].tx # 0)
            => transfers[k].amount
                   = ExactRefundUnits(transactions[transfers[k].tx].amount)

\* C15: a transaction that is accepted or further has the payout address an
\* /accept stored, and every settlement, submitted or about to be submitted,
\* goes to such an address.
C15_PayoutAddressSet ==
    /\ \A id \in DOMAIN transactions :
           transactions[id].status \in {"accepted", "deposit_confirmed",
                                        "deposit_confirmed_over", "completed"}
               => transactions[id].session_id \in Wallets
    /\ \A k \in DOMAIN confirming :
           transactions[confirming[k].tx].session_id \in Wallets
    /\ \A k \in DOMAIN transfers :
           transfers[k].site = "confirm" => transfers[k].to \in Wallets

\* a settlement was submitted to the address given at acceptance
C15_Witness ==
    \E k \in DOMAIN transfers :
        /\ transfers[k].site = "confirm"
        /\ transfers[k].to = "TSellerWallet"
        /\ transactions[transfers[k].tx].session_id = "TSellerWallet"

\* the rows a step inserts
Created == DOMAIN transactions' \ DOMAIN transactions

\* C16: the amount of a transaction is the price its item has when the offer
\* is made, and no later step (accept, refusal, sweep, confirm, refund, /off,
\* /warexit, rating, relay) changes it.
C16_AmountFixed ==
    [][/\ \A id \in Kept : transactions'[id].amount = transactions[id].amount
       /\ \A id \in Created :
              transactions'[id].amount = items[transactions'[id].item_id].price]_vars

\* a transaction was settled and rated, and its amount is the item's price
C16_Witness ==
    /\ ratings # <<>>
    /\ \E id \in DOMAIN transactions :
          /\ transactions[id].status = "completed"
          /\ transactions[id].amount = items[transactions[id].item_id].price

\* everything but the reply is left as it was
NothingChanged ==
    UNCHANGED <<items, next_item_id, transactions, next_tx_id, ledger, transfers,
                confirming, user_data, refund_state, cancel_state, rate_state,
                active_chats, ratings, used, visited>>

\* C17: an /offer on an item that does not exist or is not available is
\* answered ItemUnavailable and changes nothing; an /offer that succeeds
\* inserts exactly one row, pending, with the caller as buyer and the item's
\* seller as seller, and leaves the items as they were.
C17_OfferNeedsAvailableItem ==
    [][last'.cmd = "offer" =>
          \A u \in Buyers, i \in 1..MaxItems, t \in TxIds :
              offer_item(u, i, t) =>
                  IF i \in DOMAIN items /\ items[i].status = "available"
                  THEN \/ last'.res # "ok" /\ NothingChanged
                       \/ /\ last'.res = "ok"
                          /\ Created = {next_tx_id}
                          /\ \A id \in DOMAIN transactions :
                                 transactions'[id] = transactions[id]
                          /\ transactions'[next_tx_id].status = "pending"
                          /\ transactions'[next_tx_id].buyer_id = u
                          /\ transactions'[next_tx_id].seller_id = items[i].seller_id
                          /\ transactions'[next_tx_id].item_id = i
                          /\ items' = items
                  ELSE last'.res = "ItemUnavailable" /\ NothingChanged]_vars

\* an offer was made on the item, the item was deleted, and a second offer
\* was answered ItemUnavailable
C17_Witness ==
    /\ last = Reply("offer", 2, <<>>, "ItemUnavailable")
    /\ DOMAIN items = {}
    /\ \E id \in DOMAIN transactions :
          transactions[id].status = "pending" /\ transactions[id].buyer_id = 2

\* C18: at most one transaction in a non-terminal status references an item.
C18_OneOpenTransactionPerItem ==
    \A a \in DOMAIN transactions, b \in DOMAIN transactions :
        (/\ transactions[a].item_id = transactions[b].item_id
         /\ transactions[a].status \in NonTerminal
         /\ transactions[b].status \in NonTerminal) => a = b

\* C19: no step deletes or changes an item that a transaction in a
\* non-terminal status references.
C19_ReferencedItemKept ==
    [][\A i \in DOMAIN items :
          (\E id \in DOMAIN transactions :
              /\ transactions[id].item_id = i
              /\ transactions[id].status \in NonTerminal)
              => (i \in DOMAIN items' /\ items'[i] = items[i])]_vars

\* C20: an /off by the buyer or the seller of a transaction in a non-terminal
\* status sets it cancelled and changes no other row; any other /off (a third
\* party, a completed or cancelled transaction, an unknown reference) is
\* refused and changes no row and no pairing.
C20_OffByPartyOnly ==
    [][last'.cmd = "off" =>
          \A u \in Users, t \in TxIds :
              off_transaction(u, t) =>
                  IF /\ FindTx(t, Statuses) # 0
                     /\ transactions[FindTx(t, Statuses)].status \in NonTerminal
                     /\ u \in {transactions[FindTx(t, Statuses)].buyer_id,
                                transactions[FindTx(t, Statuses)].seller_id}
                  THEN transactions' =
                           SetStatus(transactions, FindTx(t, Statuses), "cancelled")
                  ELSE /\ last'.res # "ok"
                       /\ UNCHANGED <<transactions, active_chats>>]_vars

\* a third party's /off was refused while the transaction was open and paired
C20_Witness ==
    /\ last = Reply("off", ADMIN_TELEGRAM_ID, TxIdA, "Unauthorized")
    /\ active_chats # {}
    /\ \E id \in DOMAIN transactions : transactions[id].status \in NonTerminal

\* C21: a /warexit by anyone but the administrator is answered Unauthorized
\* and changes no row and no pairing; a /warexit by the administrator sets
\* the named transaction cancelled whatever its non-terminal status and
\* although the administrator is neither its buyer nor its seller; no
\* /warexit submits or prepares a transfer.
C21_AdminOverride ==
    [][last'.cmd = "warexit" =>
          \A u \in Users, t \in TxIds :
              warexit_command(u, t) =>
                  /\ UNCHANGED <<transfers, confirming>>
                  /\ IF u # ADMIN_TELEGRAM_ID
                     THEN /\ last'.res = "Unauthorized"
                          /\ UNCHANGED <<transactions, active_chats>>
                     ELSE \A id \in DOMAIN transactions :
                              (/\ transactions[id].transaction_id = t
                               /\ transactions[id].status \in NonTerminal)
                                  => /\ transactions'[id].status = "cancelled"
                                     /\ ADMIN_TELEGRAM_ID \notin
                                            {transactions[id].buyer_id,
                                             transactions[id].seller_id}]_vars

\* the administrator has just cancelled a transaction whose deposit had been
\* confirmed, and nothing was transferred
C21_Witness ==
    /\ last = Reply("warexit", ADMIN_TELEGRAM_ID, TxIdA, "ok")
    /\ transfers = <<>>
    /\ \E id \in DOMAIN transactions, x \in DOMAIN ledger :
          /\ transactions[id].status = "cancelled"
          /\ <<id, x>> \in used

\* user u is the buyer or the seller of a transaction whose reference is t
PartyOf(u, t) ==
    \E id \in DOMAIN transactions :
        /\ transactions[id].transaction_id = t
        /\ u \in {transactions[id].buyer_id, transactions[id].seller_id}

\* C22 (state part): every pairing names an existing transaction with its
\* buyer and its seller, and the active-transaction pointer of a user names a
\* transaction the user is a party to.
C22_PairingsOfParties ==
    /\ \A c \in active_chats :
           \E id \in DOMAIN transactions :
               /\ transactions[id].transaction_id = c[1]
               /\ transactions[id].buyer_id = c[2]
               /\ transactions[id].seller_id = c[3]
    /\ \A u \in Users :
           user_data[u].current_chat_tx # NoTx => PartyOf(u, user_data[u].current_chat_tx)

\* C22 (step part): a /chat by the buyer or the seller of a transaction that
\* is accepted, deposit_confirmed, deposit_confirmed_over or completed pairs
\* them and sets the caller's pointer; any other /chat is refused and changes
\* no pairing and no pointer; a message is forwarded only for a sender who is
\* a party to the transaction the sender's pointer names.
C22_ChatStep ==
    /\ last'.cmd = "chat" =>
          \A u \in Users, t \in TxIds :
              start_chat(u, t) =>
                  IF \E id \in DOMAIN transactions :
                         /\ transactions[id].transaction_id = t
                         /\ transactions[id].status \in
                                {"accepted", "deposit_confirmed",
                                 "deposit_confirmed_over", "completed"}
                         /\ u \in {transactions[id].buyer_id, transactions[id].seller_id}
                  THEN /\ user_data'[u].current_chat_tx = t
                       /\ \E c \in active_chats' : c[1] = t
                  ELSE /\ last'.res # "ok"
                       /\ UNCHANGED <<active_chats, user_data>>
    /\ last' = Reply("relay", 0, <<>>, "forwarded") =>
          \A u \in Users :
              relay_message(u) =>
                  /\ user_data[u].current_chat_tx # NoTx
                  /\ PartyOf(u, user_data[u].current_chat_tx)

\* C22: only the buyer and the seller of a transaction can open its relay
\* pairing, and only in the four statuses; a third party's /chat or message
\* creates no pairing and is delivered to nobody.
C22_RelayAuthorization == []C22_PairingsOfParties /\ [][C22_ChatStep]_vars

\* a third party's /chat on an accepted transaction was refused, and no
\* pairing exists
C22_Witness ==
    /\ last = Reply("chat", ADMIN_TELEGRAM_ID, TxIdA, "Unauthorized")
    /\ active_chats = {}
    /\ \E id \in DOMAIN transactions : transactions[id].status = "accepted"

\* the last step was a verification, of a transfer the chain knows
Verified == last.cmd = "verify_deposit"

\* the memo data decodes and the decoded memo, in lower case, contains ref
RefInMemo(data, ref) ==
    /\ Memo[data].ok
    /\ Contains(Lower(ref), Lower(Memo[data].val))

\* C23: a verification matches exactly when the chain transfer is found, its
\* amount in minor units is the expected amount, and the reference occurs in
\* its decoded memo, whatever the case of the letters.
C23_MatchedIffExact ==
    Verified =>
        (last.res = "matched" <=>
            /\ last.txid \in DOMAIN ledger
            /\ ledger[last.txid].value = ExactUnits(last.amount)
            /\ RefInMemo(ledger[last.txid].data, last.internal_txid))

\* C24: a verification of a transfer that cannot be fetched, or whose memo
\* data cannot be decoded, gives no match and an actual amount of 0.
C24_FailsClosed ==
    (/\ Verified
     /\ \/ last.txid \notin DOMAIN ledger
        \/ ~Memo[ledger[last.txid].data].ok)
        => last.res = "unmatched" /\ last.actual = FFromInt(0)

\* a transfer of the expected amount whose memo bytes are no UTF-8 was
\* verified: no match, actual amount 0
C24_Witness ==
    /\ Verified
    /\ last.txid \in DOMAIN ledger
    /\ ledger[last.txid] = [value |-> 2300000, data |-> <<"f", "f">>]
    /\ last.amount = 230
    /\ last.res = "unmatched"
    /\ last.actual = FFromInt(0)

\* C25 (state part): every stored rating has a score from 1 to 5.
C25_ScoresInRange ==
    \A k \in DOMAIN ratings : ratings[k].score \in 1..5

\* C25 (step part): a step stores a rating only as the score, from 1 to 5, of
\* a user in the rating conversation whose transaction is completed at that
\* moment; it stores one rating, for the other party.
C25_RatingStep ==
    ratings' # ratings =>
        \E u \in Users, n \in 1..5, id \in DOMAIN transactions :
            /\ rate_state[u] = WAITING_FOR_CONFIRMATION
            /\ transactions[id].transaction_id = user_data[u].rating_txid
            /\ transactions[id].status = "completed"
            /\ ratings' = Append(ratings,
                   [user_id |-> IF u = transactions[id].buyer_id
                                THEN transactions[id].seller_id
                                ELSE transactions[id].buyer_id,
                    score |-> n])

\* C25: ratings are stored only for transactions that are completed when the
\* score is given, with a score from 1 to 5.
C25_RatingsOfCompleted == []C25_ScoresInRange /\ [][C25_RatingStep]_vars

\* a /rate was accepted for a completed transaction, the transaction was then
\* cancelled, and the score was refused: nothing is stored
C25_Witness ==
    /\ last = Reply("rating", 2, <<>>, "InvalidState")
    /\ ratings = <<>>
    /\ \E u \in Users, id \in DOMAIN transactions :
          /\ transactions[id].transaction_id = user_data[u].rating_txid
          /\ transactions[id].status = "cancelled"

\* the transaction of reference t has the status st
HasStatus(t, st) ==
    \E id \in DOMAIN transactions :
        transactions[id].transaction_id = t /\ transactions[id].status = st

\* C26 (state part): no pairing exists for a cancelled transaction; hence a
\* /chat cannot have re-opened one.
C26_NoPairingOfCancelled ==
    \A c \in active_chats : ~HasStatus(c[1], "cancelled")

\* C26 (step part): the step in which /off or /warexit cancels a transaction
\* leaves no pairing for it, and no message is forwarded for a sender whose
\* pointer names a cancelled transaction.
C26_TeardownStep ==
    /\ \A id \in Kept :
          (/\ transactions'[id].status = "cancelled"
           /\ last' \in {Reply("off", 0, <<>>, "ok"), Reply("warexit", 0, <<>>, "ok")})
              => \A c \in active_chats' : c[1] # transactions[id].transaction_id
    /\ last' = Reply("relay", 0, <<>>, "forwarded") =>
          \A u \in Users :
              relay_message(u) => ~HasStatus(user_data[u].current_chat_tx, "cancelled")

\* C26: /off and /warexit remove the pairing of the transaction they cancel;
\* afterwards nothing is relayed for it and no /chat pairs it again.
C26_CancelTearsDown == []C26_NoPairingOfCancelled /\ [][C26_TeardownStep]_vars

\* buyer and seller had opened the chat of a transaction, it was cancelled,
\* and a later message was dropped
C26_Witness ==
    /\ last = Reply("relay", 0, <<>>, "dropped")
    /\ active_chats = {}
    /\ \A u \in {1, 2} :
          /\ user_data[u].current_chat_tx # NoTx
          /\ HasStatus(user_data[u].current_chat_tx, "cancelled")

\* C27: no pairing exists for a transaction in a terminal status, completed
\* included.
C27_NoPairingOfTerminal ==
    \A c \in active_chats :
        ~HasStatus(c[1], "completed") /\ ~HasStatus(c[1], "cancelled")

\* C28: in every interleaving of the sweep with the commands, a run of the
\* sweep changes only rows that are accepted when it writes, and no step
\* moves a cancelled transaction to deposit_confirmed or
\* deposit_confirmed_over.
C28_SweepWritesAcceptedOnly ==
    [][/\ last' = Reply("sweep", 0, <<>>, "none") =>
             /\ DOMAIN transactions' = DOMAIN transactions
             /\ \A id \in DOMAIN transactions :
                    transactions'[id] # transactions[id]
                        => transactions[id].status = "accepted"
       /\ \A id \in Kept :
             transactions[id].status = "cancelled"
                 => transactions'[id].status
                        \notin {"deposit_confirmed", "deposit_confirmed_over"}]_vars

\* a transaction was accepted, a deposit naming it arrived, it was cancelled,
\* and the sweep then ran and left it cancelled
C28_Witness ==
    /\ last = Reply("sweep", 0, <<>>, "none")
    /\ \E id \in DOMAIN transactions, x \in DOMAIN ledger :
          /\ transactions[id].status = "cancelled"
          /\ transactions[id].session_id \in Wallets
          /\ MemoNames(transactions[id], x)
          /\ ledger[x].value >= ExactUnits(transactions[id].amount)
          /\ <<id, x>> \notin used

\* row id is accepted and some chain transfer names it with exactly its amount
AwaitsSweep(id) ==
    /\ id \in DOMAIN transactions
    /\ transactions[id].status = "accepted"
    /\ \E x \in DOMAIN ledger :
          /\ MemoNames(transactions[id], x)
          /\ ledger[x].value = ExactUnits(transactions[id].amount)

\* row id did not stay accepted for the sweep (it was cancelled), or the
\* transfers that name it are not all of its amount (one of them pays more)
SweepPremiseBroken(id) ==
    /\ id \in DOMAIN transactions
    /\ \/ transactions[id].status = "cancelled"
       \/ \E x \in DOMAIN ledger :
              /\ MemoNames(transactions[id], x)
              /\ ledger[x].value > ExactUnits(transactions[id].amount)

Verifies(tx, x) ==
    /\ x \in DOMAIN ledger
    /\ ledger[x].value = ExactUnits(tx.amount)
    /\ RefInMemo(ledger[x].data, tx.transaction_id)

\* C30: a /confirm by the buyer of a deposit_confirmed transaction with a
\* txid that does not verify against its amount and reference is answered
\* VerificationFailed, leaves every row as it is (the status stays
\* deposit_confirmed) and submits or prepares no settlement.
C30_FailedRecheckKeepsState ==
    [][last'.cmd = "confirm" =>
          \/ Refused("confirm", "VerificationFailed")
          \/ \A u \in Users, t \in TxIds, x \in 0..MaxChain :
                 ~(/\ FindTx(t, {"deposit_confirmed"}) # 0
                   /\ u = transactions[FindTx(t, {"deposit_confirmed"})].buyer_id
                   /\ ~Verifies(transactions[FindTx(t, {"deposit_confirmed"})], x)
                   /\ confirm_payment(u, t, x))]_vars

\* the buyer's /confirm did not verify: the transaction is deposit_confirmed
\* and nothing was settled
C30_Witness ==
    /\ last = Reply("confirm", 2, TxIdA, "VerificationFailed")
    /\ transfers = <<>>
    /\ confirming = <<>>
    /\ \E id \in DOMAIN transactions : transactions[id].status = "deposit_confirmed"

\* C31: an /accept that names no pending transaction, whoever sends it, is
\* answered InvalidState and changes no row; and no step changes the payout
\* address of a transaction that is no longer pending.
C31_AcceptNeedsPending ==
    [][/\ last'.cmd = "accept" =>
             \/ Refused("accept", "InvalidState")
             \/ \A u \in Users, t \in TxIds, w \in PayoutWallets :
                    ~(FindTx(t, {"pending"}) = 0 /\ accept_transaction(u, t, w))
       /\ \A id \in Kept :
             transactions[id].status # "pending"
                 => transactions'[id].session_id = transactions[id].session_id]_vars

\* the seller's second /accept, on a transaction whose deposit is confirmed,
\* was refused and the first payout address is still stored
C31_Witness ==
    /\ last = Reply("accept", 1, TxIdA, "InvalidState")
    /\ \E id \in DOMAIN transactions :
          /\ transactions[id].status = "deposit_confirmed"
          /\ transactions[id].session_id = "TOtherWallet"

\* the item has been sold: one of its transactions is completed
Sold(item_id) ==
    \E id \in DOMAIN transactions :
        transactions[id].item_id = item_id /\ transactions[id].status = "completed"

\* C32: an /offer on an item that has a completed transaction is answered
\* ItemUnavailable and creates no transaction.
C32_SoldItemTakesNoOffer ==
    [][last'.cmd = "offer" =>
          \A u \in Buyers, i \in 1..MaxItems, t \in TxIds :
              Sold(i) /\ offer_item(u, i, t)
                  => last'.res = "ItemUnavailable" /\ transactions' = transactions]_vars

\* C33: while a pairing of a transaction exists, a message sent by either of
\* its parties is forwarded, whether or not that party has sent /chat itself.
C33_PairingIsBidirectional ==
    [][last'.cmd = "relay" =>
          \A u \in Users :
              /\ relay_message(u)
              /\ \E c \in active_chats : u \in {c[2], c[3]}
              => last'.res = "forwarded"]_vars

\* C34: an /exit by a user whose active-transaction pointer is set clears the
\* pointer and removes the pairing of that transaction.
C34_ExitLeavesChat ==
    [][last'.cmd = "exit" =>
          \A u \in Users :
              exit_to_start(u) /\ user_data[u].current_chat_tx # NoTx
                  => /\ user_data'[u].current_chat_tx = NoTx
                     /\ \A c \in active_chats' : c[1] # user_data[u].current_chat_tx]_vars

\* the refund transfers of the transaction named t_id that send_usdt accepted
RefundsOf(t_id) ==
    {k \in 1..Len(transfers) :
        transfers[k].site = "refund" /\ transfers[k].memo = t_id /\ transfers[k].ok}

\* C35 (state part): no transaction has two accepted refund transfers
C35_OneRefund == \A t \in TxIds : Cardinality(RefundsOf(t)) <= 1

\* C35 (step part): no /refund is taken for a transaction that has an
\* accepted refund transfer
C35_FurtherRefused ==
    last' = Reply("refund", 0, <<>>, "ok") =>
        \A u \in Users :
            refund_state[u] = END /\ refund_state'[u] = WAITING_FOR_REFUND_WALLET
                => RefundsOf(user_data'[u].refund_txid) = {}

\* C35: a transaction gets at most one successfully submitted refund
\* transfer, and after it a further /refund for the transaction is refused.
C35_AtMostOneRefund == []C35_OneRefund /\ [][C35_FurtherRefused]_vars

\* C36: the refund conversation's wallet step submits a transfer only for a
\* transaction that is in deposit_confirmed_over at that moment.
C36_RefundRechecksStatus ==
    [][last'.cmd = "refund_wallet" /\ Len(transfers') > Len(transfers) =>
          LET sent == transfers'[Len(transfers')]
          IN  /\ sent.tx \in DOMAIN transactions
              /\ transactions[sent.tx].status = "deposit_confirmed_over"]_vars

RECURSIVE SumOfTransfers(_, _)
\* the minor units of the first k outbound transfers that send_usdt accepted
\* for row id
SumOfTransfers(id, k) ==
    IF k = 0 THEN 0
    ELSE SumOfTransfers(id, k - 1) +
         (IF transfers[k].tx = id /\ transfers[k].ok THEN transfers[k].amount ELSE 0)

RECURSIVE SumOfDeposits(_, _)
\* the minor units of the first k chain transfers that confirmed row id
SumOfDeposits(id, k) ==
    IF k = 0 THEN 0
    ELSE SumOfDeposits(id, k - 1) + (IF <<id, k>> \in used THEN ledger[k].value ELSE 0)

\* C37: what has been sent out for a transaction, payout and refunds
\* together, never exceeds the chain deposits that confirmed it.
C37_Conservation ==
    \A id \in DOMAIN transactions :
        SumOfTransfers(id, Len(transfers)) <= SumOfDeposits(id, Len(ledger))

\* C38: an /off that cancels a transaction whose deposit is confirmed,
\* exactly or over, submits a transfer to the buyer in the same step.
C38_OffRefundsDeposit ==
    [][last' = Reply("off", 0, <<>>, "ok") =>
          \A id \in Kept :
              /\ transactions[id].status \in {"deposit_confirmed", "deposit_confirmed_over"}
              /\ transactions'[id].status = "cancelled"
              => /\ Len(transfers') > Len(transfers)
                 /\ transfers'[Len(transfers')].tx = id]_vars

\* C39: a rating is stored only for a submitter who is the buyer or the
\* seller of the rated transaction, and it rates the other party.
C39_RatingByParties ==
    [][Len(ratings') > Len(ratings) =>
          \A u \in Users :
              rate_state[u] = WAITING_FOR_CONFIRMATION /\ rate_state'[u] = END
                  => LET r == ratings'[Len(ratings')]
                     IN  \E id \in DOMAIN transactions :
                             /\ transactions[id].transaction_id = user_data[u].rating_txid
                             /\ \/ u = transactions[id].buyer_id
                                       /\ r.user_id = transactions[id].seller_id
                                \/ u = transactions[id].seller_id
                                       /\ r.user_id = transactions[id].buyer_id]_vars

====
